---- MODULE Spec2Model ----
(***************************************************************************)
(* A model of wifi/scheme.py: the interfaces-file codec (Scheme.__str__    *)
(* and extract_schemes), the store (Scheme.all/find/save/delete against    *)
(* the interfaces file and the interfaces.d directory), the connection     *)
(* driver (Scheme.activate/deactivate/parse_ifup_output), the option       *)
(* derivation (configuration) and two concurrent runs of Scheme.delete.    *)
(*                                                                         *)
(* Python strings are sequences of one-character strings, so that the      *)
(* regular expressions, strip/split/splitlines and the format strings are  *)
(* computed character by character.                                        *)
(***************************************************************************)
EXTENDS FiniteSets, Integers, Sequences, TLC

VARIABLES
    cblk,       \* codec: the Scheme handed to __str__
    ctext,      \* codec: the text handed to extract_schemes
    cparsed,    \* codec: what extract_schemes returned (or raised)
    cpc,        \* codec: position of the render/parse pipeline
    primary,    \* store: Scheme.interfaces, [exists, text]
    dir,        \* store: Scheme.interfaces_d, file name -> content
    op,         \* store: the last operation and its arguments
    result,     \* store: what the last operation returned or raised
    ascheme,    \* driver: the Scheme activate/deactivate ran on
    env,        \* driver: the last operation and what its commands did
    calls,      \* driver: argv of every command the last run invoked
    conn,       \* driver: what the last run returned or raised
    cell,       \* configuration: the cell argument
    passkey,    \* configuration: the passkey argument, [isNone, text]
    derived,    \* configuration: what it returned or raised
    deleting,   \* concurrent deletes: each caller's position and locals
    writes      \* concurrent deletes: the reads and writes done, in order

vars == <<cblk, ctext, cparsed, cpc, primary, dir, op, result,
          ascheme, env, calls, conn, cell, passkey, derived,
          deleting, writes>>
codecVars == <<cblk, ctext, cparsed, cpc>>
storeVars == <<primary, dir, op, result>>
driverVars == <<ascheme, env, calls, conn>>
configVars == <<cell, passkey, derived>>
raceVars == <<deleting, writes>>

----------------------------------------------------------------------------
(* Bounds of the model.                                                    *)

MaxKeys == 2        \* option keys of a generated Scheme
MaxValues == 2      \* values of one option key of a generated Scheme
MaxOutLines == 2    \* lines of output of a modelled ifup run
MaxTextLines == 3   \* lines of a text handed to extract_schemes
MaxOptLines == 3    \* option lines under one header of a generated text
MaxKeyLen == 30     \* characters of a generated passkey

----------------------------------------------------------------------------
(* Characters and str methods.                                             *)

\* \s of the re module, restricted to the characters of the model
IsSpace(c) == c \in {" ", "\t", "\n"}

\* \d of the re module
IsDigit(c) == c \in {"0", "1", "2", "3", "4", "5", "6", "7", "8", "9"}

\* \w of the re module
IsWord(c) ==
    \/ IsDigit(c)
    \/ c \in {"a", "b", "c", "d", "e", "f", "g", "h", "i", "j", "k", "l", "m",
              "n", "o", "p", "q", "r", "s", "t", "u", "v", "w", "x", "y", "z",
              "A", "B", "C", "D", "E", "F", "G", "H", "I", "J", "K", "L", "M",
              "N", "O", "P", "Q", "R", "S", "T", "U", "V", "W", "X", "Y", "Z",
              "_"}

\* the element of a one-element set; Only({e : x \in {v}}) is e with x
\* standing for the value of v: "x = v", then e
Only(S) == CHOOSE r \in S : TRUE

Min(S) == CHOOSE a \in S : \A b \in S : a <= b
Max(S) == CHOOSE a \in S : \A b \in S : a >= b

\* s[i:] with a 1-based i
Drop(s, i) == IF i > Len(s) THEN <<>> ELSE SubSeq(s, i, Len(s))

\* s[:n]
Take(s, n) == IF n >= Len(s) THEN s ELSE SubSeq(s, 1, n)

\* s.startswith(p) at offset i (1-based): s[i-1:].startswith(p)
StartsWithAt(s, p, i) ==
    /\ i + Len(p) - 1 <= Len(s)
    /\ \A j \in 1..Len(p) : s[i + j - 1] = p[j]

StartsWith(s, p) == StartsWithAt(s, p, 1)

\* "".join(parts[i:]) with a 1-based i
RECURSIVE JoinFrom(_, _)
JoinFrom(parts, i) ==
    IF i > Len(parts) THEN <<>> ELSE parts[i] \o JoinFrom(parts, i + 1)

\* "".join(parts)
Join(parts) == Only({JoinFrom(q, 1) : q \in {parts}})

\* where a greedy run of a character class that starts at position i of a
\* string of length n ends, stops being the positions >= i outside the
\* class: the least of them, or past the end of the string if none
FirstStop(i, n, stops) ==
    Only({IF st # {} THEN Min(st) ELSE IF i > n THEN i ELSE n + 1 :
             st \in {stops}})

\* first position >= i whose character is not whitespace (Len(s)+1 if none)
SkipSpace(s, i) == FirstStop(i, Len(s), {j \in i..Len(s) : ~IsSpace(s[j])})

\* first position >= i whose character is whitespace (Len(s)+1 if none)
SkipNonSpace(s, i) == FirstStop(i, Len(s), {j \in i..Len(s) : IsSpace(s[j])})

\* first position >= i whose character is not a word character
SkipWord(s, i) == FirstStop(i, Len(s), {j \in i..Len(s) : ~IsWord(s[j])})

\* last position <= i whose character is not whitespace (0 if none)
LastNonSpace(s, i) ==
    Only({IF keep = {} THEN 0 ELSE Max(keep) :
             keep \in {{j \in 1..i : ~IsSpace(s[j])}}})

\* s.strip()
Strip(s) ==
    Only({IF a > b THEN <<>> ELSE SubSeq(s, a, b) :
             a \in {SkipSpace(s, 1)}, b \in {LastNonSpace(s, Len(s))}})

\* the positions 1..n in order
Positions(n) == [j \in 1..n |-> j]

\* position j of s is whitespace next to whitespace: inside a match of \s{2,}
InSpaceRun(s, j) ==
    /\ IsSpace(s[j])
    /\ \/ j > 1 /\ IsSpace(s[j - 1])
       \/ j < Len(s) /\ IsSpace(s[j + 1])

\* re.sub(r"\s{2,}", " ", s): every maximal run of two or more whitespace
\* characters becomes one space (written at the first position of the run);
\* a single whitespace character is kept.  kept: the positions written.
CollapseSpace(s) ==
    Only({[k \in 1..Len(kept) |->
              IF InSpaceRun(s, kept[k]) THEN " " ELSE s[kept[k]]] :
             kept \in {SelectSeq(Positions(Len(s)),
                                 LAMBDA j : \/ ~InSpaceRun(s, j)
                                            \/ j = 1
                                            \/ ~IsSpace(s[j - 1]))}})

\* position of the first c in s at or after i (0 if none): s.find(c) + 1
IndexOf(s, c, i) ==
    Only({IF hits = {} THEN 0 ELSE Min(hits) :
             hits \in {{j \in i..Len(s) : s[j] = c}}})

\* s.split(" ", 1)
SplitFirstSpace(s) ==
    Only({IF p = 0 THEN <<s>> ELSE <<Take(s, p - 1), Drop(s, p + 1)>> :
             p \in {IndexOf(s, " ", 1)}})

\* the k-th of the lines of s, nl being the positions of its line breaks
LineAt(s, nl, k, keepends) ==
    Only({IF last < first THEN <<>> ELSE SubSeq(s, first, last) :
             first \in {IF k = 1 THEN 1 ELSE nl[k - 1] + 1},
             last \in {IF k > Len(nl) THEN Len(s)
                       ELSE IF keepends THEN nl[k] ELSE nl[k] - 1}})

\* the lines of s, a line break ending a line; keepends as in
\* str.splitlines(keepends)
LinesOf(s, keepends) ==
    Only({[k \in 1..(IF nl = <<>> \/ nl[Len(nl)] < Len(s)
                     THEN IF s = <<>> THEN 0 ELSE Len(nl) + 1
                     ELSE Len(nl)) |-> LineAt(s, nl, k, keepends)] :
             nl \in {SelectSeq(Positions(Len(s)), LAMBDA j : s[j] = "\n")}})

\* s.splitlines(): the lines of s without their line breaks
SplitLines(s) == Only({LinesOf(str, FALSE) : str \in {s}})

\* iteration over a text file: the lines of s with their line breaks
FileLines(s) == Only({LinesOf(str, TRUE) : str \in {s}})

----------------------------------------------------------------------------
(* String literals of the source.                                          *)

SP == <<" ">>
NL == <<"\n">>
TAB == <<"\t">>
sIface == <<"i", "f", "a", "c", "e">>
sInet == <<"i", "n", "e", "t">>
sWlan == <<"w", "l", "a", "n">>
sDhcp == <<"d", "h", "c", "p">>
sAddress == <<"a", "d", "d", "r", "e", "s", "s">>
sBoundTo == <<"b", "o", "u", "n", "d", " ", "t", "o", " ">>
sIfup == <<"/", "s", "b", "i", "n", "/", "i", "f", "u", "p">>
sIfdown == <<"/", "s", "b", "i", "n", "/", "i", "f", "d", "o", "w", "n">>
sDashO == <<"-", "o">>
Indent == <<" ", " ", " ", " ">>

----------------------------------------------------------------------------
(* Scheme: [interface, name, type, options]; options is the dict in its    *)
(* key order, a sequence of [k |-> key, v |-> sequence of values].         *)

\* Scheme.__init__
Scheme(interface, name, type, options) ==
    [interface |-> interface, name |-> name, type |-> type,
     options |-> options]

\* the (k, v) pairs of "for k in options.keys() for v in options[k]",
\* from the i-th key on
RECURSIVE OptionPairsFrom(_, _)
OptionPairsFrom(options, i) ==
    IF i > Len(options) THEN <<>>
    ELSE [j \in 1..Len(options[i].v) |-> <<options[i].k, options[i].v[j]>>]
         \o OptionPairsFrom(options, i + 1)

OptionPairs(options) == OptionPairsFrom(options, 1)

\* "iface {interface}-{name} inet {type}" of a Scheme
HeaderOf(s) ==
    sIface \o SP \o s.interface \o <<"-">> \o s.name \o SP \o sInet
    \o SP \o s.type

\* Scheme.__str__
Render(s) ==
    Only({HeaderOf(s)
          \o Join([i \in 1..Len(pairs) |->
                      NL \o Indent \o pairs[i][1] \o SP \o pairs[i][2]])
          \o NL :
             pairs \in {OptionPairs(s.options)}})

NoMatch ==
    [matched |-> FALSE, interface |-> <<>>, name |-> <<>>, type |-> <<>>]

\* scheme_re.match(line), given where each part of the pattern stops
\* matching: p2 after "iface\s+", p4 after "wlan\d?", p5 after
\* "(?:-\w+)?", p6 after "\s+", p8 after "inet\s+", p9 after "\w+".
\* An unmatched name group is the empty string.
SchemeReGroups(line, p2, p4, p5, p6, p8, p9) ==
    IF ~StartsWith(line, sIface) \/ p2 = 6 THEN NoMatch
    ELSE IF ~StartsWithAt(line, sWlan, p2) THEN NoMatch
    ELSE IF p5 = p4 + 1 THEN NoMatch
    ELSE IF p6 = p5 \/ ~StartsWithAt(line, sInet, p6) THEN NoMatch
    ELSE IF p8 = p6 + 4 \/ p9 = p8 THEN NoMatch
    ELSE [matched |-> TRUE,
          interface |-> SubSeq(line, p2, p4 - 1),
          name |-> IF p5 > p4 THEN SubSeq(line, p4 + 1, p5 - 1) ELSE <<>>,
          type |-> SubSeq(line, p8, p9 - 1)]

\* scheme_re.match(line).  Every quantifier of the pattern is followed by
\* a character class disjoint from its own, so the greedy match is the only
\* one; the positions are computed from p2 (last line) to p9 (first line).
SchemeReMatch(line) ==
    Only({Only({Only({Only({Only({Only({
        SchemeReGroups(line, p2, p4, p5, p6, p8, p9) :
            p9 \in {SkipWord(line, p8)}}) :
            p8 \in {SkipSpace(line, p6 + 4)}}) :
            p6 \in {SkipSpace(line, p5)}}) :
            p5 \in {IF p4 <= Len(line) /\ line[p4] = "-"
                    THEN SkipWord(line, p4 + 1) ELSE p4}}) :
            p4 \in {IF p2 + 4 <= Len(line) /\ IsDigit(line[p2 + 4])
                    THEN p2 + 5 ELSE p2 + 4}}) :
            p2 \in {SkipSpace(line, 6)}})

\* "options[key] = [value]": a later value of a key replaces the earlier
AddOptionOverwrite(options, key, value) ==
    IF \E i \in 1..Len(options) : options[i].k = key
    THEN [i \in 1..Len(options) |->
             IF options[i].k = key
             THEN [options[i] EXCEPT !.v = <<value>>]
             ELSE options[i]]
    ELSE Append(options, [k |-> key, v |-> <<value>>])

\* "if not key in options: options[key] = []; options[key].append(value)"
AddOption(options, key, value) ==
    IF \E i \in 1..Len(options) : options[i].k = key
    THEN [i \in 1..Len(options) |->
             IF options[i].k = key
             THEN [options[i] EXCEPT !.v = Append(@, value)]
             ELSE options[i]]
    ELSE Append(options, [k |-> key, v |-> <<value>>])

\* the inner while loop of extract_schemes, lines[i] being lines[0] of the
\* code; "key, value = ..." raises ValueError when split returns a single
\* element.  next is the index of the first line left unread.
RECURSIVE ReadOptions(_, _, _)
ReadOptions(lines, i, options) ==
    IF i <= Len(lines) /\ StartsWith(lines[i], SP)
    THEN Only({IF Len(parts) # 2
               THEN [ok |-> FALSE, next |-> i, options |-> options]
               ELSE Only({ReadOptions(lines, i + 1, added) :
                             added \in {AddOption(options, parts[1],
                                                  parts[2])}}) :
                  parts \in {SplitFirstSpace(
                                 CollapseSpace(Strip(lines[i])))}})
    ELSE [ok |-> TRUE, next |-> i, options |-> options]

RECURSIVE ExtractLoop(_, _, _)

\* "if match:" without "if not scheme or not interface: continue"
ExtractBlockUnnamed(lines, i, schemes, m) ==
    Only({IF ~r.ok THEN [kind |-> "ValueError", schemes |-> <<>>]
          ELSE Only({ExtractLoop(lines, r.next, found) :
                        found \in {Append(schemes,
                                          Scheme(m.interface, m.name,
                                                 m.type, r.options))}}) :
             r \in {ReadOptions(lines, i + 1, <<>>)}})

\* "if match:" of the outer loop, m being the match of lines[i]
ExtractBlock(lines, i, schemes, m) ==
    IF m.name = <<>> \/ m.interface = <<>>
    THEN ExtractLoop(lines, i + 1, schemes)
    ELSE Only({IF ~r.ok THEN [kind |-> "ValueError", schemes |-> <<>>]
               ELSE Only({ExtractLoop(lines, r.next, found) :
                             found \in {Append(schemes,
                                               Scheme(m.interface, m.name,
                                                      m.type, r.options))}}) :
                  r \in {ReadOptions(lines, i + 1, <<>>)}})

\* the outer while loop of extract_schemes, lines[i] being the line popped
ExtractLoop(lines, i, schemes) ==
    IF i > Len(lines) THEN [kind |-> "ok", schemes |-> schemes]
    ELSE IF StartsWith(lines[i], <<"#">>) \/ lines[i] = <<>>
         THEN ExtractLoop(lines, i + 1, schemes)
    ELSE Only({IF ~m.matched THEN ExtractLoop(lines, i + 1, schemes)
               ELSE ExtractBlock(lines, i, schemes, m) :
                  m \in {SchemeReMatch(lines[i])}})

\* extract_schemes(interfaces)
extract_schemes(interfaces) ==
    Only({ExtractLoop(lines, 1, <<>>) : lines \in {SplitLines(interfaces)}})

----------------------------------------------------------------------------
(* Inputs of the codec.                                                    *)

sWlan0 == sWlan \o <<"0">>
sEth0 == <<"e", "t", "h", "0">>
sStatic == <<"s", "t", "a", "t", "i", "c">>

\* all sequences over S of length lo..hi
SeqsOf(S, lo, hi) == UNION {[1..n -> S] : n \in lo..hi}

\* sequences without a repeated element
Distinct(q) == \A i, j \in 1..Len(q) : i # j => q[i] # q[j]

OptionKeys == {<<"k">>, <<"p">>, sAddress}
OptionValues == {<<"v">>, <<"x", " ", " ", "y">>}

\* dicts of at most MaxKeys keys with 1..MaxValues values each
OptionDicts(keys, values) ==
    LET keySeqs == {q \in SeqsOf(keys, 0, MaxKeys) : Distinct(q)}
        valSeqs == SeqsOf(values, 1, MaxValues)
    IN  UNION {{[i \in 1..Len(q) |-> [k |-> q[i], v |-> f[i]]] :
                    f \in [1..Len(q) -> valSeqs]} : q \in keySeqs}

CodecHeaders == {<<sWlan0, <<"a">>, sDhcp>>, <<sWlan, <<"b">>, sStatic>>}

CodecBlocks ==
    {Scheme(h[1], h[2], h[3], o) :
        h \in CodecHeaders, o \in OptionDicts(OptionKeys, OptionValues)}

NoScheme == Scheme(<<>>, <<>>, <<>>, <<>>)
NotParsed == [kind |-> "none", schemes |-> <<>>]

\* lines of an interfaces file
hdrA == sIface \o SP \o sWlan0 \o <<"-", "a">> \o SP \o sInet \o SP \o sDhcp
hdrB == sIface \o SP \o sWlan0 \o <<"-", "b">> \o SP \o sInet \o SP
        \o sStatic
hdrNoName == sIface \o SP \o sWlan0 \o SP \o sInet \o SP \o sDhcp
optKV == Indent \o <<"k", " ", "v">>
optKW == Indent \o <<"k", " ", "w">>
optPX == Indent \o <<"p", " ", "x">>
optTabIndent == TAB \o <<"k", " ", "v">>
optOneToken == Indent \o <<"f", "o", "o">>
optBlank == Indent
optTabSep == Indent \o <<"k", "\t", "v">>
lineEmpty == <<>>
lineComment == <<"#", " ", "c">>
lineOther == <<"a", "u", "t", "o", " ", "l", "o">>

CodecLines ==
    {hdrA, hdrB, hdrNoName, optKV, optKW, optPX, optTabIndent, optOneToken,
     optBlank, optTabSep, lineEmpty, lineComment, lineOther}

\* the text whose lines are ls, each ended by a line break
TextOf(ls) == Join([i \in 1..Len(ls) |-> ls[i] \o NL])

CodecTexts == {TextOf(ls) : ls \in SeqsOf(CodecLines, 0, MaxTextLines)}

\* well-formed option lines, two of them with the same key
OptLines == {optKV, optKW, optPX}

NamedHeaders == {hdrA, hdrB}

\* a named header and its option lines, alone or after a header without a
\* name and the indented lines below it
BlockTexts ==
    {TextOf(pre \o <<h>> \o ls) :
        pre \in {<<>>} \cup {<<hdrNoName>> \o q :
                                q \in SeqsOf(OptLines, 0, MaxOptLines)},
        h \in NamedHeaders,
        ls \in SeqsOf(OptLines, 0, MaxOptLines)}

----------------------------------------------------------------------------
(* The codec: str(scheme) and extract_schemes applied to the inputs.       *)

StoreIdle ==
    /\ primary = [exists |-> FALSE, text |-> <<>>]
    /\ dir = {}
    /\ op = [name |-> "none", scheme |-> NoScheme, overwrite |-> FALSE]
    /\ result = [kind |-> "none", schemes |-> <<>>]

DriverIdle ==
    /\ ascheme = NoScheme
    /\ env = [op |-> "none", downExit |-> 0, downOutput |-> <<>>,
              upExit |-> 0, output |-> <<>>]
    /\ calls = <<>>
    /\ conn = [kind |-> "none", ip |-> <<>>, carries |-> <<>>]

CodecIdle ==
    /\ cblk = NoScheme
    /\ ctext = <<>>
    /\ cparsed = NotParsed
    /\ cpc = "idle"

NoCell == [encrypted |-> FALSE, encryption_type |-> <<>>, ssid |-> <<>>]
NoPasskey == [isNone |-> TRUE, text |-> <<>>]
NotDerived == [kind |-> "none", options |-> <<>>]

ConfigIdle ==
    /\ cell = NoCell
    /\ passkey = NoPasskey
    /\ derived = NotDerived

\* the callers of a concurrent delete
Callers == {1, 2}

NotDeleting ==
    [pc |-> "idle", scheme |-> NoScheme, read |-> <<>>, content |-> <<>>]

RaceIdle ==
    /\ deleting = [c \in Callers |-> NotDeleting]
    /\ writes = <<>>

CodecInit ==
    /\ \/ cblk \in CodecBlocks /\ ctext = <<>> /\ cpc = "block"
       \/ cblk = NoScheme /\ ctext \in CodecTexts \cup BlockTexts
          /\ cpc = "text"
    /\ cparsed = NotParsed
    /\ StoreIdle
    /\ DriverIdle
    /\ ConfigIdle
    /\ RaceIdle

\* str(cblk)
CodecRender ==
    /\ cpc = "block"
    /\ ctext' = Render(cblk)
    /\ cpc' = "rendered"
    /\ UNCHANGED <<cblk, cparsed, storeVars, driverVars,
                 configVars, raceVars>>

\* extract_schemes(ctext)
CodecParse ==
    /\ cpc \in {"rendered", "text"}
    /\ cparsed' = extract_schemes(ctext)
    /\ cpc' = IF cpc = "rendered" THEN "parsedBlock" ELSE "parsedText"
    /\ UNCHANGED <<cblk, ctext, storeVars, driverVars,
                 configVars, raceVars>>

CodecNext == CodecRender \/ CodecParse

SpecCodec == CodecInit /\ [][CodecNext]_vars

\* C1: round trip: for every Scheme b with non-empty interface, name and
\* type and a non-empty options mapping, extract_schemes(str(b)) is exactly
\* one Scheme, equal to b in interface, name, type and options.
C1_RoundTrip ==
    (/\ cpc = "parsedBlock"
     /\ cblk.interface # <<>> /\ cblk.name # <<>> /\ cblk.type # <<>>
     /\ cblk.options # <<>>)
    => (cparsed.kind = "ok" /\ cparsed.schemes = <<cblk>>)

----------------------------------------------------------------------------
(* The store: Scheme.interfaces is [exists, text], Scheme.interfaces_d is  *)
(* a set of files [name, text].                                            *)

\* "%s-%s" % (interface, name): the file name inside interfaces_d
IfaceFileName(s) == s.interface \o <<"-">> \o s.name

\* the orders in which listdir may return the files of d
Listings(d) ==
    {q \in [1..Cardinality(d) -> d] : \A f \in d : \E i \in DOMAIN q : q[i] = f}

\* ensure_file_exists(cls.interfaces): an absent file is created empty
ensure_file_exists(file) ==
    IF file.exists THEN file ELSE [exists |-> TRUE, text |-> <<>>]

\* schemes.extend(extract_schemes(...)) over the files in listing order,
\* from the i-th file on
RECURSIVE ExtendAll(_, _, _)
ExtendAll(schemes, files, i) ==
    IF i > Len(files) THEN [kind |-> "ok", schemes |-> schemes]
    ELSE Only({IF r.kind # "ok" THEN r
               ELSE Only({ExtendAll(extended, files, i + 1) :
                             extended \in {schemes \o r.schemes}}) :
                  r \in {extract_schemes(files[i].text)}})

\* Scheme.all() once ensure_file_exists has run: the schemes of the
\* interfaces file, then those of every file of interfaces_d
all(text, listing) ==
    Only({IF r.kind # "ok" THEN r ELSE ExtendAll(r.schemes, listing, 1) :
             r \in {extract_schemes(text)}})

\* Scheme.where(lambda s: s.interface == interface and s.name == name)
where(schemes, interface, name) ==
    SelectSeq(schemes, LAMBDA x : x.interface = interface /\ x.name = name)

\* Scheme.find returning the last match: where(...)[-1] or None
find_last(schemes, interface, name) ==
    Only({IF m = <<>> THEN [found |-> FALSE, scheme |-> NoScheme]
          ELSE [found |-> TRUE, scheme |-> m[Len(m)]] :
             m \in {where(schemes, interface, name)}})

\* Scheme.find applied to the schemes all() produced: where(...)[0] or None
find(schemes, interface, name) ==
    Only({IF m = <<>> THEN [found |-> FALSE, scheme |-> NoScheme]
          ELSE [found |-> TRUE, scheme |-> m[1]] :
             m \in {where(schemes, interface, name)}})

\* a loop of Scheme.delete that never skips a line
DeleteLoopKeep(lines, i, iface, skip) == Join(lines)

\* the loop of Scheme.delete over the lines of the interfaces file, from
\* the i-th line on: what it writes
RECURSIVE DeleteLoop(_, _, _, _)
DeleteLoop(lines, i, iface, skip) ==
    IF i > Len(lines) THEN <<>>
    ELSE Only({(IF skip1 THEN <<>> ELSE lines[i])
               \o DeleteLoop(lines, i + 1, iface, skip1) :
                  skip1 \in {IF Strip(lines[i]) = <<>> THEN FALSE
                             ELSE IF StartsWith(Strip(lines[i]), iface)
                                  THEN TRUE
                             ELSE skip}})

\* the files of d without the one called name
RemoveFile(d, name) == {f \in d : f.name # name}

\* open(name, "w").write(text) inside interfaces_d
WriteFile(d, name, text) ==
    RemoveFile(d, name) \cup {[name |-> name, text |-> text]}

\* Scheme.delete on an existing interfaces file with content text
delete(s, text, d) ==
    Only({[text |-> DeleteLoop(lines, 1, header, FALSE),
           dir |-> RemoveFile(d, IfaceFileName(s))] :
             lines \in {FileLines(text)}, header \in {HeaderOf(s)}})

----------------------------------------------------------------------------
(* Inputs of the store.                                                    *)

hdrA2 == sIface \o SP \o SP \o sWlan0 \o <<"-", "a">> \o SP \o sInet \o SP
         \o sDhcp

StorePrimaries ==
    {[exists |-> FALSE, text |-> <<>>],
     [exists |-> TRUE, text |-> <<>>],
     \* two blocks separated by a blank line
     [exists |-> TRUE,
      text |-> TextOf(<<lineComment, hdrA, optKV, lineEmpty, hdrB, optPX>>)],
     \* two blocks with no blank line between them
     [exists |-> TRUE,
      text |-> TextOf(<<lineOther, lineEmpty, hdrA, optKV, hdrB, optPX>>)],
     \* a header with two spaces after "iface"
     [exists |-> TRUE, text |-> TextOf(<<hdrA2, optKV, lineEmpty, lineOther>>)]}

StorePairs == {<<sWlan0, <<"a">>>>, <<sWlan0, <<"b">>>>, <<sEth0, <<"a">>>>}

optsKW == <<[k |-> <<"k">>, v |-> <<<<"w">>>>]>>

StoreBlocks ==
    {Scheme(sWlan0, <<"a">>, sDhcp, <<>>),
     Scheme(sWlan0, <<"a">>, sStatic, optsKW),
     Scheme(sWlan0, <<"b">>, sStatic, <<>>),
     Scheme(sEth0, <<"a">>, sDhcp, <<>>),
     Scheme(sEth0, <<"a">>, sStatic, optsKW)}

----------------------------------------------------------------------------
(* The operations of the store.                                            *)

StoreInit ==
    /\ primary \in StorePrimaries
    /\ dir = {}
    /\ op = [name |-> "none", scheme |-> NoScheme, overwrite |-> FALSE]
    /\ result = [kind |-> "none", schemes |-> <<>>]
    /\ CodecIdle
    /\ DriverIdle
    /\ ConfigIdle
    /\ RaceIdle

\* list(Scheme.all())
List ==
    \E listing \in Listings(dir) :
    \E file \in {ensure_file_exists(primary)} :
        /\ primary' = file
        /\ op' = [name |-> "list", scheme |-> NoScheme, overwrite |-> FALSE]
        /\ result' = all(file.text, listing)
        /\ UNCHANGED <<dir, codecVars, driverVars,
                 configVars, raceVars>>

\* Scheme.find(interface, name)
Find(interface, name) ==
    \E listing \in Listings(dir) :
    \E file \in {ensure_file_exists(primary)} :
    \E l \in {all(file.text, listing)} :
    \E r \in {find(l.schemes, interface, name)} :
        /\ primary' = file
        /\ op' = [name |-> "find",
                  scheme |-> Scheme(interface, name, <<>>, <<>>),
                  overwrite |-> FALSE]
        /\ result' = IF l.kind # "ok" THEN l
                     ELSE IF r.found
                          THEN [kind |-> "found", schemes |-> <<r.scheme>>]
                          ELSE [kind |-> "None", schemes |-> <<>>]
        /\ UNCHANGED <<dir, codecVars, driverVars,
                 configVars, raceVars>>

\* s.save(allow_overwrite)
Save(s, allow_overwrite) ==
    \E listing \in Listings(dir) :
    \E file \in {ensure_file_exists(primary)} :
    \E l \in {all(file.text, listing)} :
    \E existing_scheme \in {find(l.schemes, s.interface, s.name)} :
        /\ op' = [name |-> "save", scheme |-> s,
                  overwrite |-> allow_overwrite]
        /\ IF l.kind # "ok"
           THEN /\ result' = l
                /\ primary' = file
                /\ UNCHANGED dir
           ELSE IF existing_scheme.found /\ ~allow_overwrite
           THEN /\ result' = [kind |-> "RuntimeError", schemes |-> <<>>]
                /\ primary' = file
                /\ UNCHANGED dir
           ELSE \E d \in {IF existing_scheme.found
                          THEN delete(existing_scheme.scheme, file.text, dir)
                          ELSE [text |-> file.text, dir |-> dir]} :
                    /\ result' = [kind |-> "ok", schemes |-> <<>>]
                    /\ primary' = [exists |-> TRUE, text |-> d.text]
                    /\ dir' = WriteFile(d.dir, IfaceFileName(s), Render(s))
        /\ UNCHANGED <<codecVars, driverVars,
                 configVars, raceVars>>

\* s.delete(); open(self.interfaces, "r") raises when the file is absent
Delete(s) ==
    /\ op' = [name |-> "delete", scheme |-> s, overwrite |-> FALSE]
    /\ IF ~primary.exists
       THEN /\ result' = [kind |-> "FileNotFoundError", schemes |-> <<>>]
            /\ UNCHANGED <<primary, dir>>
       ELSE \E d \in {delete(s, primary.text, dir)} :
                /\ result' = [kind |-> "ok", schemes |-> <<>>]
                /\ primary' = [exists |-> TRUE, text |-> d.text]
                /\ dir' = d.dir
    /\ UNCHANGED <<codecVars, driverVars,
                 configVars, raceVars>>

StoreNext ==
    \/ List
    \/ \E p \in StorePairs : Find(p[1], p[2])
    \/ \E s \in StoreBlocks, allow_overwrite \in BOOLEAN :
           Save(s, allow_overwrite)
    \/ \E s \in StoreBlocks : Delete(s)

Spec == StoreInit /\ [][StoreNext]_vars

----------------------------------------------------------------------------
(* Properties of the codec.                                                *)

\* C6: extract_schemes never fails: whatever the text, also one with an
\* indented line that has no key/value separator after a block header, it
\* returns a sequence of schemes instead of raising an error.
C6_ParseNeverFails ==
    cpc \in {"parsedText", "parsedBlock"} => cparsed.kind = "ok"

\* key and value of a well-formed option line "    k value"
LineKey(l) == <<l[5]>>
LineValue(l) == SubSeq(l, 7, Len(l))

\* the options dict that option lines ls stand for: the keys in the order
\* of their first line, each with the values of all its lines, top to
\* bottom
ExpectedOptions(ls) ==
    LET firsts == SelectSeq(Positions(Len(ls)),
                            LAMBDA i : \A j \in 1..(i - 1) :
                                           LineKey(ls[j]) # LineKey(ls[i]))
        ValuesOf(key) ==
            LET own == SelectSeq(ls, LAMBDA l : LineKey(l) = key)
            IN  [n \in 1..Len(own) |-> LineValue(own[n])]
    IN  [n \in 1..Len(firsts) |->
            [k |-> LineKey(ls[firsts[n]]),
             v |-> ValuesOf(LineKey(ls[firsts[n]]))]]

\* the Scheme a named header line and option lines ls stand for
ExpectedScheme(h, ls) ==
    IF h = hdrA THEN Scheme(sWlan0, <<"a">>, sDhcp, ExpectedOptions(ls))
    ELSE Scheme(sWlan0, <<"b">>, sStatic, ExpectedOptions(ls))

\* C12: multiplicity: parsing a text in which one block's indented region
\* holds N lines with the same key, possibly interleaved with lines of
\* other keys, yields one options entry for the key whose values are those
\* N values in top-to-bottom order; a later line never overwrites an
\* earlier one.
C12_Multiplicity ==
    cpc = "parsedText"
    => LET lines == SplitLines(ctext)
       IN  (/\ Len(lines) >= 2
            /\ lines[1] \in NamedHeaders
            /\ \A i \in 2..Len(lines) : lines[i] \in OptLines)
           => (/\ cparsed.kind = "ok"
               /\ cparsed.schemes =
                      <<ExpectedScheme(lines[1], Tail(lines))>>)

\* C12 witness: one key on two lines with a line of another key between
C12_Witness ==
    /\ cpc = "parsedText"
    /\ ctext = TextOf(<<hdrA, optKV, optPX, optKW>>)
    /\ cparsed.kind = "ok"
    /\ cparsed.schemes[1].options =
           <<[k |-> <<"k">>, v |-> <<<<"v">>, <<"w">>>>],
             [k |-> <<"p">>, v |-> <<<<"x">>>>]>>

\* C13: skip rule: a header "iface <interface> inet <type>" without a
\* "-<name>" suffix produces no block, the indented lines below it are
\* attributed to no block, and a named block later in the text is parsed
\* with exactly its own options.
C13_SkipUnnamed ==
    cpc = "parsedText"
    => LET lines == SplitLines(ctext)
           named == {i \in 1..Len(lines) : lines[i] \in NamedHeaders}
       IN  (/\ Len(lines) >= 1
            /\ lines[1] = hdrNoName
            /\ \A i \in 2..Len(lines) : lines[i] \in OptLines \cup NamedHeaders
            /\ Cardinality(named) <= 1)
           => (/\ cparsed.kind = "ok"
               /\ cparsed.schemes =
                      IF named = {} THEN <<>>
                      ELSE LET h == CHOOSE i \in named : TRUE
                           IN  <<ExpectedScheme(lines[h],
                                     SubSeq(lines, h + 1, Len(lines)))>>)

\* C13 witness: option lines under a header without a name, then a named
\* block with an option of its own
C13_Witness ==
    /\ cpc = "parsedText"
    /\ ctext = TextOf(<<hdrNoName, optKV, optKW, hdrB, optPX>>)
    /\ cparsed.kind = "ok"
    /\ cparsed.schemes =
           <<Scheme(sWlan0, <<"b">>, sStatic,
                    <<[k |-> <<"p">>, v |-> <<<<"x">>>>]>>)>>

\* line l begins with a whitespace character and holds a key, one space
\* and a value
IndentedOption(l) ==
    /\ l # <<>> /\ IsSpace(l[1])
    /\ \E p \in 2..(Len(l) - 2) :
           /\ \A j \in 1..(p - 1) : IsSpace(l[j])
           /\ ~IsSpace(l[p]) /\ l[p + 1] = " "
           /\ \A j \in (p + 2)..Len(l) : ~IsSpace(l[j])

\* C19: every line that directly follows a block header or a previous
\* option line of the block and begins with a whitespace character, a tab
\* as well as a space, is consumed as an option line of the block: the
\* block has as many option values as such lines.
C19_AnyWhitespaceIndent ==
    cpc = "parsedText"
    => LET lines == SplitLines(ctext)
       IN  (/\ Len(lines) >= 2
            /\ lines[1] \in NamedHeaders
            /\ \A i \in 2..Len(lines) : IndentedOption(lines[i]))
           => (/\ cparsed.kind = "ok"
               /\ Len(cparsed.schemes) = 1
               /\ Len(OptionPairs(cparsed.schemes[1].options))
                      = Len(lines) - 1)

----------------------------------------------------------------------------
(* Properties of the store.                                                *)

\* no two schemes with the same (interface, name)
UniquePairs(schemes) ==
    \A i, j \in 1..Len(schemes) :
        (/\ schemes[i].interface = schemes[j].interface
         /\ schemes[i].name = schemes[j].name) => i = j

\* C2: the stores of StoreInit list no (interface, name) twice, and after
\* any sequence of saves and deletes list(Scheme.all()) still contains no
\* two schemes with the same (interface, name).
C2_StoreUnique ==
    \A listing \in Listings(dir) :
        \A l \in {all(primary.text, listing)} :
            l.kind = "ok" => UniquePairs(l.schemes)

\* the interfaces file has a header line of the scheme's (interface, name)
PrimaryHolds(text, s) ==
    \E lines \in {SplitLines(text)} :
        \E i \in 1..Len(lines) :
            StartsWith(lines[i],
                       sIface \o SP \o IfaceFileName(s) \o SP \o sInet \o SP)

\* a save of the pair succeeded and no delete of it followed (its file of
\* interfaces_d is there), or the interfaces file holds the pair
ExistsInStore(s) ==
    \/ \E f \in dir : f.name = IfaceFileName(s)
    \/ PrimaryHolds(primary.text, s)

\* C3: a save without allow_overwrite of a scheme whose (interface, name)
\* already exists in the store fails with RuntimeError (AlreadyExists) and
\* writes nothing.
C3_SaveNoOverwriteFails ==
    [][(/\ op'.name = "save"
        /\ ~op'.overwrite
        /\ ExistsInStore(op'.scheme))
       => (/\ result'.kind = "RuntimeError"
           /\ dir' = dir
           /\ primary'.text = primary.text)]_vars

\* some listing of the store finds a scheme of s's (interface, name)
FoundIn(p, d, s) ==
    \E listing \in Listings(d) :
        find(all(p.text, listing).schemes, s.interface, s.name).found

\* in every listing of the store, find returns s and no other scheme of
\* its (interface, name) is listed
OnlyNew(p, d, s) ==
    \A listing \in Listings(d) :
        \A l \in {all(p.text, listing)} :
            \A f \in {find(l.schemes, s.interface, s.name)} :
                /\ l.kind = "ok"
                /\ f.found
                /\ f.scheme = s
                /\ Len(where(l.schemes, s.interface, s.name)) = 1

\* C4: after a successful save with allow_overwrite of a scheme whose
\* (interface, name) was in the store, the prior block is gone from the
\* interfaces file and from interfaces_d: find returns the saved scheme and
\* the listing holds no other scheme of that (interface, name).
C4_SaveOverwriteReplaces ==
    [][(/\ op'.name = "save"
        /\ op'.overwrite
        /\ result'.kind = "ok"
        /\ FoundIn(primary, dir, op'.scheme))
       => OnlyNew(primary', dir', op'.scheme)]_vars

\* the lines of the blocks of a text, as extract_schemes delimits them (a
\* named header and the lines starting with a space that follow it): the
\* blocks whose header is "iface <interface>-<name> inet <type>" of s when
\* own, every other block when ~own
RECURSIVE BlockLines(_, _, _, _)
BlockLines(lines, s, own, inBlock) ==
    IF lines = <<>> THEN <<>>
    ELSE LET line == Head(lines)
             m == SchemeReMatch(line)
             keep == IF m.matched /\ m.name # <<>>
                     THEN (line = HeaderOf(s)) = own
                     ELSE IF StartsWith(line, SP) THEN inBlock
                     ELSE FALSE
         IN  (IF keep THEN <<line>> ELSE <<>>)
             \o BlockLines(Tail(lines), s, own, keep)

\* C5: a delete removes exactly the lines of the target block from the
\* interfaces file and leaves the lines of every other block as they were,
\* also a block of another (interface, name) that directly follows the
\* target with no blank line between them.
C5_DeleteFrame ==
    [][(op'.name = "delete" /\ result'.kind = "ok")
       => (/\ BlockLines(SplitLines(primary'.text), op'.scheme, TRUE, FALSE)
                = <<>>
           /\ BlockLines(SplitLines(primary'.text), op'.scheme, FALSE, FALSE)
                = BlockLines(SplitLines(primary.text), op'.scheme, FALSE,
                             FALSE))]_vars

\* the positions of schemes whose interface and name equal those of s
Hits(schemes, s) ==
    {i \in 1..Len(schemes) :
        schemes[i].interface = s.interface /\ schemes[i].name = s.name}

\* C16: find returns the first scheme, in the order of list(Scheme.all())
\* (all schemes of the interfaces file before any of interfaces_d), whose
\* interface and name equal the arguments, returns None without raising
\* when the list holds no such scheme, and changes no block of the
\* interfaces file or of interfaces_d.
C16_FindFirst ==
    [][op'.name = "find"
       => (/\ dir' = dir
           /\ primary'.text = primary.text
           /\ \E listing \in Listings(dir) :
                  \A l \in {all(primary.text, listing)} :
                      l.kind = "ok"
                      => IF Hits(l.schemes, op'.scheme) = {}
                         THEN result' = [kind |-> "None", schemes |-> <<>>]
                         ELSE result' =
                                  [kind |-> "found",
                                   schemes |->
                                       <<l.schemes[Min(Hits(l.schemes,
                                                            op'.scheme))]>>]
           /\ \A p \in {extract_schemes(primary.text)} :
                  (p.kind = "ok" /\ Hits(p.schemes, op'.scheme) # {})
                  => result'.schemes =
                         <<p.schemes[Min(Hits(p.schemes, op'.scheme))]>>)]_vars

\* C16 witness: a find that returned the scheme of the interfaces file
\* while interfaces_d holds another scheme of the same interface and name
C16_Witness ==
    /\ op.name = "find"
    /\ result.kind = "found"
    /\ \E i \in 1..Len(extract_schemes(primary.text).schemes) :
           extract_schemes(primary.text).schemes[i] = result.schemes[1]
    /\ \E f \in dir :
           /\ f.name = IfaceFileName(op.scheme)
           /\ extract_schemes(f.text).schemes # <<>>
           /\ extract_schemes(f.text).schemes[1] # result.schemes[1]

\* C20: every operation that reads the interfaces file (list, find, save,
\* delete) succeeds when the file does not exist at the time of the call:
\* the file is created empty before the read and its absence is never
\* reported as an error, also when delete is the first operation.
C20_AbsentPrimaryCreated ==
    [][(~primary.exists /\ op'.name \in {"list", "find", "save", "delete"})
       => (/\ result'.kind # "FileNotFoundError"
           /\ primary'.exists)]_vars

----------------------------------------------------------------------------
(* The connection driver.  A command run is [exit, output]: its exit       *)
(* status and its combined stdout+stderr.                                  *)

sNone == <<"N", "o", "n", "e">>

\* subprocess.check_output(argv, stderr=subprocess.STDOUT): the output, or
\* CalledProcessError(output=<combined output>, stderr=None) on a non-zero
\* exit; stderr is redirected into stdout, so nothing is captured as stderr
check_output(argv, exit, output) ==
    [raised |-> exit # 0,
     output |-> output,
     stderr |-> [isNone |-> TRUE, text |-> <<>>]]

\* "%s" % x of a value that is a string or None
Str(x) == IF x.isNone THEN sNone ELSE x.text

\* Scheme.iface
iface(s) == s.interface \o <<"-">> \o s.name

\* Scheme.as_args emitting one "-o key=value" per key: its first value only
as_args_first_value(s) ==
    <<s.interface \o <<"=">> \o iface(s)>>
    \o Join([i \in 1..Len(s.options) |->
                <<sDashO, s.options[i].k \o <<"=">> \o s.options[i].v[1]>>])

\* Scheme.as_args
as_args(s) ==
    LET pairs == OptionPairs(s.options)
    IN  <<s.interface \o <<"=">> \o iface(s)>>
        \o Join([i \in 1..Len(pairs) |->
                    <<sDashO, pairs[i][1] \o <<"=">> \o pairs[i][2]>>])

\* bound_ip_re without its "^": "bound to " matched anywhere in a line
RECURSIVE BoundIpSearchAnywhere(_, _)
BoundIpSearchAnywhere(output, i) ==
    IF i > Len(output) THEN 0
    ELSE IF /\ StartsWithAt(output, sBoundTo, i)
            /\ SkipNonSpace(output, i + Len(sBoundTo)) > i + Len(sBoundTo)
         THEN i
         ELSE BoundIpSearchAnywhere(output, i + 1)

\* the start of the leftmost match of bound_ip_re in output at or after
\* position i (0 if none): "bound to " at the start of the text or right
\* after a line break, followed by at least one non-whitespace character
RECURSIVE BoundIpSearch(_, _)
BoundIpSearch(output, i) ==
    IF i > Len(output) THEN 0
    ELSE IF /\ (i = 1 \/ output[i - 1] = "\n")
            /\ StartsWithAt(output, sBoundTo, i)
            /\ SkipNonSpace(output, i + Len(sBoundTo)) > i + Len(sBoundTo)
         THEN i
         ELSE BoundIpSearch(output, i + 1)

\* options["address"][0] of a dict: the first value of the first (only)
\* entry whose key is "address"
AddressOf(options) ==
    LET m == SelectSeq(options, LAMBDA e : e.k = sAddress)
    IN  IF m = <<>> THEN [raised |-> "KeyError", value |-> <<>>]
        ELSE IF m[1].v = <<>> THEN [raised |-> "IndexError", value |-> <<>>]
        ELSE [raised |-> "no", value |-> m[1].v[1]]

\* Scheme.parse_ifup_output
parse_ifup_output(s, output) ==
    IF s.type = sDhcp
    THEN LET p == BoundIpSearch(output, 1)
             b == p + Len(sBoundTo)
         IN  IF p # 0
             THEN [kind |-> "Connection",
                   ip |-> SubSeq(output, b, SkipNonSpace(output, b) - 1),
                   carries |-> <<>>]
             ELSE [kind |-> "ConnectionError", ip |-> <<>>, carries |-> <<>>]
    ELSE LET a == AddressOf(s.options)
         IN  IF a.raised # "no"
             THEN [kind |-> a.raised, ip |-> <<>>, carries |-> <<>>]
             ELSE [kind |-> "Connection", ip |-> a.value, carries |-> <<>>]

\* Scheme.deactivate handing ifdown the scheme's iface, interface-name
deactivate_iface(s, e) ==
    LET r == check_output(<<sIfdown, iface(s)>>, e.downExit, e.downOutput)
    IN  [calls |-> <<<<sIfdown, iface(s)>>>>,
         conn |-> IF r.raised
                  THEN [kind |-> "CalledProcessError", ip |-> <<>>,
                        carries |-> r.output]
                  ELSE [kind |-> "returned", ip |-> <<>>, carries |-> <<>>]]

\* Scheme.deactivate under a run e of the commands: the commands it
\* invoked and what it returned or raised
deactivate(s, e) ==
    LET r == check_output(<<sIfdown, s.interface>>, e.downExit, e.downOutput)
    IN  [calls |-> <<<<sIfdown, s.interface>>>>,
         conn |-> IF r.raised
                  THEN [kind |-> "CalledProcessError", ip |-> <<>>,
                        carries |-> r.output]
                  ELSE [kind |-> "returned", ip |-> <<>>, carries |-> <<>>]]

\* Scheme.activate where a CalledProcessError of deactivate is not caught
activate_uncaught(s, e) ==
    LET d == deactivate(s, e)
        argv == <<sIfup>> \o as_args(s)
        r == check_output(argv, e.upExit, e.output)
    IN  IF d.conn.kind = "CalledProcessError" THEN d
        ELSE [calls |-> d.calls \o <<argv>>,
              conn |-> IF r.raised
                       THEN [kind |-> "InterfaceError", ip |-> <<>>,
                             carries |-> Str(r.stderr)]
                       ELSE parse_ifup_output(s, r.output)]

\* Scheme.activate under a run e of the commands; the InterfaceError
\* carries the "%s" argument of its message, e.stderr
activate(s, e) ==
    LET d == deactivate(s, e)
        argv == <<sIfup>> \o as_args(s)
        r == check_output(argv, e.upExit, e.output)
    IN  [calls |-> d.calls \o <<argv>>,
         conn |-> IF r.raised
                  THEN [kind |-> "InterfaceError", ip |-> <<>>,
                        carries |-> Str(r.stderr)]
                  ELSE parse_ifup_output(s, r.output)]

----------------------------------------------------------------------------
(* Inputs of the driver.                                                   *)

ip1 == <<"1", ".", "2">>
ip2 == <<"3", ".", "4">>
sManual == <<"m", "a", "n", "u", "a", "l">>

DriverOptions ==
    {<<>>,
     <<[k |-> sAddress, v |-> <<ip1>>]>>,
     <<[k |-> <<"k">>, v |-> <<<<"v">>>>],
       [k |-> sAddress, v |-> <<ip2, ip1>>]>>}

DriverSchemes ==
    {Scheme(sWlan0, <<"a">>, t, o) :
        t \in {sDhcp, sStatic, sManual}, o \in DriverOptions}

\* lines of output of ifup
outBound1 == sBoundTo \o ip1
outBound2 == sBoundTo \o ip2 \o <<" ", "-", "-", " ", "r">>
outBoundNoToken == sBoundTo
outBoundTwoSpaces == sBoundTo \o SP \o ip1
outBoundIndented == SP \o sBoundTo \o ip2
outBoundUpper == <<"B", "o", "u", "n", "d", " ", "t", "o", " ">> \o ip1
outOther == <<"D", "H", "C", "P", "A", "C", "K">>

OutLines ==
    {outBound1, outBound2, outBoundNoToken, outBoundTwoSpaces,
     outBoundIndented, outBoundUpper, outOther}

DriverOutputs == {TextOf(ls) : ls \in SeqsOf(OutLines, 0, MaxOutLines)}

ExitStatuses == {0, 1}

\* the runs of activate (ifdown, then ifup) and of deactivate (ifdown)
DriverRuns ==
    {[op |-> "activate", downExit |-> de, downOutput |-> dout,
      upExit |-> ue, output |-> out] :
        de \in ExitStatuses, dout \in {<<>>, TextOf(<<outOther>>)},
        ue \in ExitStatuses, out \in DriverOutputs}
    \cup
    {[op |-> "deactivate", downExit |-> de, downOutput |-> dout,
      upExit |-> 0, output |-> <<>>] :
        de \in ExitStatuses, dout \in {<<>>, TextOf(<<outOther>>)}}

----------------------------------------------------------------------------
(* The operations of the driver.                                           *)

DriverInit ==
    /\ ascheme \in DriverSchemes
    /\ env \in DriverRuns
    /\ calls = <<>>
    /\ conn = [kind |-> "none", ip |-> <<>>, carries |-> <<>>]
    /\ CodecIdle
    /\ StoreIdle
    /\ ConfigIdle
    /\ RaceIdle

\* ascheme.activate(), the commands behaving as in env
Activate ==
    /\ env.op = "activate"
    /\ conn.kind = "none"
    /\ calls' = activate(ascheme, env).calls
    /\ conn' = activate(ascheme, env).conn
    /\ UNCHANGED <<ascheme, env, codecVars, storeVars,
                 configVars, raceVars>>

\* ascheme.deactivate(), the command behaving as in env
Deactivate ==
    /\ env.op = "deactivate"
    /\ conn.kind = "none"
    /\ calls' = deactivate(ascheme, env).calls
    /\ conn' = deactivate(ascheme, env).conn
    /\ UNCHANGED <<ascheme, env, codecVars, storeVars,
                 configVars, raceVars>>

DriverNext == Activate \/ Deactivate

SpecDriver == DriverInit /\ [][DriverNext]_vars

----------------------------------------------------------------------------
(* Properties of the driver.                                               *)

\* activate has run and returned or raised
Activated == env.op = "activate" /\ conn.kind # "none"

\* C7: whenever the ifup run by activate exits non-zero, activate raises
\* InterfaceError (ActivationFailed), returns no Connection, and the error
\* carries the combined output the command produced.
C7_ActivationFailedCarriesOutput ==
    (Activated /\ env.upExit # 0)
    => (conn.kind = "InterfaceError" /\ conn.carries = env.output)

\* C8: every run of activate invokes ifdown exactly once and before ifup,
\* and ifup exactly once whatever the exit status of ifdown was: a failure
\* of the cleanup deactivate never reaches the caller.
C8_DownThenUpOnce ==
    Activated
    => (/\ Len(calls) = 2
        /\ calls[1] = <<sIfdown, ascheme.interface>>
        /\ calls[2][1] = sIfup
        /\ conn.kind # "CalledProcessError")

\* C8 witness: an activate whose ifdown failed and whose ifup ran
C8_Witness ==
    /\ Activated
    /\ env.downExit # 0
    /\ Len(calls) = 2
    /\ conn.kind = "Connection"

\* the lines of output that start with "bound to "
BoundLines(output) ==
    SelectSeq(SplitLines(output), LAMBDA l : StartsWith(l, sBoundTo))

\* the run of non-whitespace characters after "bound to " on a line
TokenAfterPrefix(l) ==
    SubSeq(l, Len(sBoundTo) + 1, SkipNonSpace(l, Len(sBoundTo) + 1) - 1)

\* C9 as claimed: for a dhcp scheme whose ifup exits zero, if some output
\* line starts with "bound to " activate returns a Connection whose
\* ip_address is the token following the prefix on the first such line,
\* and if none does it raises ConnectionError (NoAddressBound).
C9_BoundToPrefix ==
    (Activated /\ env.upExit = 0 /\ ascheme.type = sDhcp)
    => IF BoundLines(env.output) # <<>>
       THEN /\ conn.kind = "Connection"
            /\ conn.ip = TokenAfterPrefix(BoundLines(env.output)[1])
       ELSE conn.kind = "ConnectionError"

\* the lines of output that start with "bound to " directly followed by a
\* non-whitespace character
BoundTokenLines(output) ==
    SelectSeq(SplitLines(output),
              LAMBDA l : StartsWith(l, sBoundTo)
                         /\ TokenAfterPrefix(l) # <<>>)

\* C9 as amended: for a dhcp scheme whose ifup exits zero, if some output
\* line starts with "bound to " directly followed by a non-whitespace
\* character, activate returns a Connection whose ip_address is the run of
\* non-whitespace characters after the prefix on the first such line; if
\* no line has that form it raises ConnectionError (NoAddressBound).
C9_BoundToToken ==
    (Activated /\ env.upExit = 0 /\ ascheme.type = sDhcp)
    => IF BoundTokenLines(env.output) # <<>>
       THEN /\ conn.kind = "Connection"
            /\ conn.ip = TokenAfterPrefix(BoundTokenLines(env.output)[1])
       ELSE conn.kind = "ConnectionError"

\* C9 witness: a dhcp activate whose output has a "bound to " line without
\* a token before the line that binds the address
C9_Witness ==
    /\ Activated /\ env.upExit = 0 /\ ascheme.type = sDhcp
    /\ Len(BoundLines(env.output)) = 2
    /\ Len(BoundTokenLines(env.output)) = 1
    /\ TokenAfterPrefix(BoundLines(env.output)[1]) = <<>>
    /\ conn.kind = "Connection"
    /\ conn.ip = ip2

\* C10: for every scheme whose type is not dhcp and whose ifup exits zero,
\* activate returns a Connection whose ip_address is the first value of
\* the address option, whatever the output; without an address key the
\* address is absent and activate still returns a Connection.
C10_StaticAddress ==
    (Activated /\ env.upExit = 0 /\ ascheme.type # sDhcp)
    => (/\ conn.kind = "Connection"
        /\ \A i \in 1..Len(ascheme.options) :
               ascheme.options[i].k = sAddress
               => conn.ip = ascheme.options[i].v[1]
        /\ (\A i \in 1..Len(ascheme.options) :
               ascheme.options[i].k # sAddress) => conn.ip = <<>>)

\* deactivate has run and returned or raised
Deactivated == env.op = "deactivate" /\ conn.kind # "none"

\* C11: deactivate invokes ifdown exactly once, with the argument list
\* [interface] (no scheme name, no options); it returns normally when the
\* command exits zero and raises CalledProcessError (DeactivationFailed)
\* carrying the captured output when it exits non-zero.
C11_DeactivateOnce ==
    Deactivated
    => (/\ calls = <<<<sIfdown, ascheme.interface>>>>
        /\ IF env.downExit = 0
           THEN conn.kind = "returned"
           ELSE /\ conn.kind = "CalledProcessError"
                /\ conn.carries = env.downOutput)

\* C11 witness: a deactivate of a scheme with options whose ifdown exited
\* non-zero with output
C11_Witness ==
    /\ Deactivated
    /\ ascheme.options # <<>>
    /\ env.downExit # 0
    /\ env.downOutput # <<>>
    /\ conn.kind = "CalledProcessError"
    /\ conn.carries = env.downOutput
    /\ Len(calls) = 1

\* the number of option values of the keys before the i-th
RECURSIVE ValuesBefore(_, _)
ValuesBefore(options, i) ==
    IF i <= 1 THEN 0
    ELSE ValuesBefore(options, i - 1) + Len(options[i - 1].v)

\* C17: the argument list activate passes to ifup is
\* "<interface>=<interface>-<name>" first, followed, for every key in the
\* options' key order and every value of the key in its value order, by
\* the two elements "-o" and "key=value": 1 + 2 * (number of option values)
\* elements.
C17_IfupArgs ==
    Activated
    => LET args == Tail(calls[2])
           opts == ascheme.options
       IN  /\ calls[2][1] = sIfup
           /\ Len(args) = 1 + 2 * ValuesBefore(opts, Len(opts) + 1)
           /\ args[1] = ascheme.interface \o <<"=">> \o ascheme.interface
                        \o <<"-">> \o ascheme.name
           /\ \A i \in 1..Len(opts) : \A j \in 1..Len(opts[i].v) :
                  LET at == 2 * (ValuesBefore(opts, i) + j)
                  IN  /\ args[at] = sDashO
                      /\ args[at + 1] = opts[i].k \o <<"=">> \o opts[i].v[j]

\* C17 witness: an activate of a scheme with two keys and three values
C17_Witness ==
    /\ Activated
    /\ Len(ascheme.options) = 2
    /\ Len(ascheme.options[2].v) = 2
    /\ Len(calls[2]) = 8
    /\ calls[2][7] = sDashO
    /\ calls[2][8] = sAddress \o <<"=">> \o ip1

----------------------------------------------------------------------------
(* Option derivation: configuration(cell, passkey).  A derived option is   *)
(* [k, v]; a value is [pbkdf2, text, salt]: the string text, or, when      *)
(* pbkdf2, the 64 hexadecimal digits PBKDF2(text, salt, 4096).hexread(32). *)

sWirelessEssid == <<"w", "i", "r", "e", "l", "e", "s", "s", "-", "e", "s", "s", "i", "d">>
sWirelessChannel == <<"w", "i", "r", "e", "l", "e", "s", "s", "-", "c", "h", "a", "n", "n", "e", "l">>
sWirelessKey == <<"w", "i", "r", "e", "l", "e", "s", "s", "-", "k", "e", "y">>
sWpaSsid == <<"w", "p", "a", "-", "s", "s", "i", "d">>
sWpaPsk == <<"w", "p", "a", "-", "p", "s", "k">>
sAuto == <<"a", "u", "t", "o">>
sWpa == <<"w", "p", "a">>
sWpa2 == <<"w", "p", "a", "2">>
sWep == <<"w", "e", "p">>
sOpen == <<"o", "p", "e", "n">>
sAsciiPrefix == <<"s", ":">>

\* a value that is the string t
Plain(t) == [pbkdf2 |-> FALSE, text |-> t, salt |-> <<>>]

\* PBKDF2(passkey, ssid, 4096).hexread(32), kept as the term it is
PBKDF2(key, ssid) == [pbkdf2 |-> TRUE, text |-> key, salt |-> ssid]

\* the lengths of the hexadecimal WEP keys
hex_lengths == {10, 26, 32, 58}

\* ascii_lengths = (5, 13, 16, 29)
ascii_lengths == {5, 13, 16, 29}

\* the WEP passkey left as it is, whatever its length
wep_passkey_unprefixed(key) == key

\* "if len(passkey) in ascii_lengths: passkey = 's:' + passkey"
wep_passkey(key) ==
    IF Len(key) \in ascii_lengths THEN sAsciiPrefix \o key ELSE key

\* configuration(cell, passkey); len(None) raises TypeError
configuration(c, key) ==
    IF ~c.encrypted
    THEN [kind |-> "ok",
          options |-> <<[k |-> sWirelessEssid, v |-> Plain(c.ssid)],
                        [k |-> sWirelessChannel, v |-> Plain(sAuto)]>>]
    ELSE IF StartsWith(c.encryption_type, sWpa)
    THEN IF key.isNone THEN [kind |-> "TypeError", options |-> <<>>]
         ELSE [kind |-> "ok",
               options |->
                   <<[k |-> sWpaSsid, v |-> Plain(c.ssid)],
                     [k |-> sWpaPsk,
                      v |-> IF Len(key.text) # 64
                            THEN PBKDF2(key.text, c.ssid)
                            ELSE Plain(key.text)],
                     [k |-> sWirelessChannel, v |-> Plain(sAuto)]>>]
    ELSE IF c.encryption_type = sWep
    THEN IF key.isNone THEN [kind |-> "TypeError", options |-> <<>>]
         ELSE [kind |-> "ok",
               options |->
                   <<[k |-> sWirelessEssid, v |-> Plain(c.ssid)],
                     [k |-> sWirelessKey,
                      v |-> Plain(wep_passkey(key.text))]>>]
    ELSE [kind |-> "NotImplementedError", options |-> <<>>]

----------------------------------------------------------------------------
(* Inputs of the option derivation.                                        *)

ConfigCells ==
    [encrypted : BOOLEAN,
     encryption_type : {sWep, sWpa, sWpa2, sOpen},
     ssid : {<<"n">>, <<"m", "y">>}]

\* passkeys: None, the strings of one repeated character up to MaxKeyLen
\* characters, and 64 hexadecimal digits
ConfigPasskeys ==
    {NoPasskey}
    \cup {[isNone |-> FALSE, text |-> [i \in 1..n |-> ch]] :
             n \in 0..MaxKeyLen, ch \in {"a", "1"}}
    \cup {[isNone |-> FALSE, text |-> [i \in 1..64 |-> "f"]]}

----------------------------------------------------------------------------
(* The operation of the option derivation.                                 *)

ConfigInit ==
    /\ cell \in ConfigCells
    /\ passkey \in ConfigPasskeys
    /\ derived = NotDerived
    /\ CodecIdle
    /\ StoreIdle
    /\ DriverIdle
    /\ RaceIdle

\* configuration(cell, passkey)
Configure ==
    /\ derived.kind = "none"
    /\ derived' = configuration(cell, passkey)
    /\ UNCHANGED <<cell, passkey, codecVars, storeVars, driverVars, raceVars>>

ConfigNext == Configure

SpecConfig == ConfigInit /\ [][ConfigNext]_vars

----------------------------------------------------------------------------
(* Properties of the option derivation.                                    *)

\* configuration ran on a WEP cell with a passkey
DerivedWep ==
    /\ derived.kind # "none"
    /\ cell.encrypted
    /\ cell.encryption_type = sWep
    /\ ~passkey.isNone

\* C14: for a WEP network, wireless-key is "s:" + secret exactly when the
\* length of the secret is in {5, 13, 16, 29} and the secret unchanged for
\* every other length (12 and 14 in particular); wireless-essid is the ssid
\* in both cases.
C14_WepAsciiPrefix ==
    DerivedWep
    => (/\ derived.kind = "ok"
        /\ Len(derived.options) = 2
        /\ derived.options[1] = [k |-> sWirelessEssid, v |-> Plain(cell.ssid)]
        /\ derived.options[2].k = sWirelessKey
        /\ derived.options[2].v =
               IF Len(passkey.text) \in {5, 13, 16, 29}
               THEN Plain(<<"s", ":">> \o passkey.text)
               ELSE Plain(passkey.text))

\* C14 witness: a 29-character secret stored with the prefix
C14_Witness ==
    /\ DerivedWep
    /\ Len(passkey.text) = 29
    /\ derived.options[2].v = Plain(<<"s", ":">> \o passkey.text)

\* C15 as claimed: given a WEP network and a 13-character secret, the key
\* stored equals the original secret unchanged and is not prefixed with
\* "s:".
C15_Wep13Unchanged ==
    (DerivedWep /\ Len(passkey.text) = 13)
    => (/\ derived.kind = "ok"
        /\ derived.options[2].v = Plain(passkey.text))

\* C15 as amended: given a WEP network, a 13-character secret is stored as
\* "s:" followed by the secret, and a 12- or 14-character secret is stored
\* unchanged, without the prefix.
C15_Wep13Prefixed ==
    DerivedWep
    => (/\ Len(passkey.text) = 13
           => (/\ derived.kind = "ok"
               /\ derived.options[2].k = sWirelessKey
               /\ derived.options[2].v.text = <<"s", ":">> \o passkey.text)
        /\ Len(passkey.text) \in {12, 14}
           => (/\ derived.kind = "ok"
               /\ derived.options[2].k = sWirelessKey
               /\ derived.options[2].v.text = passkey.text))

\* C15 witness: a 13-character secret stored with the prefix
C15_Witness ==
    /\ DerivedWep
    /\ Len(passkey.text) = 13
    /\ derived.kind = "ok"
    /\ Len(derived.options[2].v.text) = 15
    /\ SubSeq(derived.options[2].v.text, 1, 2) = <<"s", ":">>

----------------------------------------------------------------------------
(* Concurrent deletes: two callers run Scheme.delete on the same           *)
(* interfaces file, each step by step: the read of the file into content,  *)
(* open(..., "w") that truncates it, the write of content at the start of  *)
(* the file, and the removal of the file of interfaces_d.                  *)

\* the interfaces file of the concurrent deletes: two blocks, each ended
\* by a blank line
RacePrimaries ==
    {[exists |-> TRUE,
      text |-> TextOf(<<lineComment, hdrA, optKV, lineEmpty, hdrB, optPX>>)],
     [exists |-> TRUE,
      text |-> TextOf(<<hdrB, lineEmpty, lineOther, lineEmpty, hdrA, optKV,
                        optKW>>)]}

\* the two schemes of RacePrimaries
RaceSchemes ==
    {Scheme(sWlan0, <<"a">>, sDhcp, <<>>),
     Scheme(sWlan0, <<"b">>, sStatic, <<>>)}

RaceInit ==
    /\ primary \in RacePrimaries
    /\ dir \in {{}, {[name |-> IfaceFileName(s), text |-> Render(s)] :
                        s \in RaceSchemes}}
    /\ op = [name |-> "none", scheme |-> NoScheme, overwrite |-> FALSE]
    /\ result = [kind |-> "none", schemes |-> <<>>]
    /\ deleting \in {d \in [Callers -> {[NotDeleting EXCEPT !.pc = "called",
                                                             !.scheme = s] :
                                            s \in RaceSchemes}] :
                        d[1].scheme # d[2].scheme}
    /\ writes = <<>>
    /\ CodecIdle
    /\ DriverIdle
    /\ ConfigIdle

\* "with open(self.interfaces, 'r') as f: ... content += line": caller c
\* reads the file and computes content; open raises on an absent file
DeleteRead(c) ==
    /\ deleting[c].pc = "called"
    /\ IF ~primary.exists
       THEN /\ deleting' = [deleting EXCEPT ![c].pc = "FileNotFoundError"]
            /\ UNCHANGED writes
       ELSE /\ \E lines \in {FileLines(primary.text)} :
                   deleting' =
                       [deleting EXCEPT
                           ![c].pc = "read",
                           ![c].read = primary.text,
                           ![c].content =
                               DeleteLoop(lines, 1,
                                          HeaderOf(deleting[c].scheme),
                                          FALSE)]
            /\ writes' = Append(writes, [caller |-> c, step |-> "read"])
    /\ UNCHANGED <<storeVars, codecVars, driverVars, configVars>>

\* "open(self.interfaces, 'w')": the file is truncated (created if absent)
DeleteOpen(c) ==
    /\ deleting[c].pc = "read"
    /\ deleting' = [deleting EXCEPT ![c].pc = "opened"]
    /\ primary' = [exists |-> TRUE, text |-> <<>>]
    /\ UNCHANGED <<dir, op, result, writes, codecVars, driverVars,
                   configVars>>

\* "f.write(content)" flushed when the with block ends: content is written
\* at the start of the file, over what the file holds by then
DeleteWrite(c) ==
    /\ deleting[c].pc = "opened"
    /\ deleting' = [deleting EXCEPT ![c].pc = "written"]
    /\ primary' = [exists |-> TRUE,
                   text |-> deleting[c].content
                            \o Drop(primary.text,
                                    Len(deleting[c].content) + 1)]
    /\ writes' = Append(writes, [caller |-> c, step |-> "write"])
    /\ UNCHANGED <<dir, op, result, codecVars, driverVars, configVars>>

\* "if exists(iface_file): remove(iface_file)", then delete returns
DeleteRemove(c) ==
    /\ deleting[c].pc = "written"
    /\ deleting' = [deleting EXCEPT ![c].pc = "returned"]
    /\ dir' = RemoveFile(dir, IfaceFileName(deleting[c].scheme))
    /\ UNCHANGED <<primary, op, result, writes, codecVars, driverVars,
                   configVars>>

RaceNext ==
    \E c \in Callers :
        \/ DeleteRead(c)
        \/ DeleteOpen(c)
        \/ DeleteWrite(c)
        \/ DeleteRemove(c)

SpecRace == RaceInit /\ [][RaceNext]_vars

----------------------------------------------------------------------------
(* Properties of the concurrent deletes.                                   *)

\* both deletes have returned
BothReturned == \A c \in Callers : deleting[c].pc = "returned"

\* the position in writes of caller c's step
StepAt(c, step) ==
    CHOOSE i \in 1..Len(writes) :
        writes[i] = [caller |-> c, step |-> step]

\* the read and write steps of the two deletes interleaved: each caller
\* read the file before the other caller wrote it
Interleaved ==
    \A c, d \in Callers :
        c # d => StepAt(c, "read") < StepAt(d, "write")

\* C18: lost update under concurrency: when two callers run delete on two
\* different blocks of the same interfaces file with their read and write
\* steps interleaved, both deletes can return with one of the two deleted
\* blocks still in the file (the witness); a deleted block is still there
\* after both returned only when the steps interleaved, never when one
\* delete wrote before the other read.
C18_LostUpdate ==
    BothReturned
    => ((\E c \in Callers :
            PrimaryHolds(primary.text, deleting[c].scheme))
        => Interleaved)

\* C18 witness: both deletes have returned and the block deleted by the
\* caller that wrote first is in the interfaces file
C18_Witness ==
    /\ BothReturned
    /\ \E c \in Callers :
           /\ PrimaryHolds(primary.text, deleting[c].scheme)
           /\ ~PrimaryHolds(deleting[c].content, deleting[c].scheme)
           /\ \E d \in Callers \ {c} :
                  /\ ~PrimaryHolds(primary.text, deleting[d].scheme)
                  /\ primary.text = deleting[d].content

====
